---- MODULE Spec2Model ----
(***************************************************************************)
(* A model of cafe_inventory.py: the in-memory InventorySystem (categories, *)
(* suppliers, items, purchase orders and the four itertools counters) and  *)
(* the operations on it.  One action per method: a step from the caller    *)
(* being between calls (op = "") to the call having returned or raised,    *)
(* with the call (op, args) and its outcome (ret, err) recorded.  Resume   *)
(* is the caller going on to its next call.  Spec is the InventorySystem   *)
(* under any caller; MainSpec is main(): seed_demo_data and the menu loop, *)
(* which make their calls through the same actions.                        *)
(***************************************************************************)
EXTENDS Integers, Sequences, FiniteSets, TLC

\* ---------------------------------------------------------------- bounds
\* The counters, stocks and quantities of the program are unbounded; these
\* cap what is explored.
MaxCategories == 2      \* categories created
MaxSuppliers  == 2      \* suppliers created
MaxItems      == 2      \* items created
MaxOrders     == 2      \* purchase orders created
MaxEntities   == 5      \* entities of the four kinds together
MaxStock      == 2      \* currentStock stays within 0..MaxStock
MaxQty        == 2      \* quantity arguments are -1..MaxQty
MaxLineQty    == 1      \* order line quantities stay within 0..MaxLineQty
\* under main(), which starts from the demo data
MainMaxItems  == 6      \* items stored
MainMaxOrders == 2      \* purchase orders created
MainMaxStock  == 30     \* currentStock stays within 0..MainMaxStock

\* ------------------------------------------------------ program constants
FirstCatId  == 1        \* itertools.count(1)
FirstSupId  == 1        \* itertools.count(1)
FirstItemId == 1001     \* itertools.count(1001)
FirstPoId   == 5001     \* itertools.count(5001)

VARIABLES
    cat_id, sup_id, item_id, po_id,         \* next value of each counter
    categories, suppliers, items, orders,   \* the four dicts, keyed by id
    issued,     \* history: the ids each counter has handed out so far
    op,         \* name of the call that has just ended, "" between calls
    args,       \* its argument tuple
    err,        \* message of the ValueError it raised, "" if it returned
    exc,        \* class of the exception it raised, "" if it returned
    ret,        \* <<value>> it returned, <<>> for None or when it raised
    was,        \* status the order had before submit/receive/cancel, else ""
    prev,       \* history: <<item_id, qty, stock found>> of the add_stock that
                \* has returned, kept until the next call has been taken, and
                \* only if that call is consume_stock(item_id, qty); else <<>>
    pc,         \* where main() is; "caller" when another caller drives
    choice,     \* main: choice, "" before the first one is read
    low,        \* main, choice 6: low, as the itemIDs of its items
    created,    \* main: created (choice 6) or <<poid>> (choice 7)
    at,         \* main: how far the for loop over created has come
    calls,      \* history: calls into InventorySystem for this choice
    shown       \* history: message except Exception printed for this choice

vars == <<cat_id, sup_id, item_id, po_id, categories, suppliers, items, orders,
          issued, op, args, err, exc, ret, was, prev,
          pc, choice, low, created, at, calls, shown>>

state == <<categories, suppliers, items, orders>>
counters == <<cat_id, sup_id, item_id, po_id, issued>>
observed == <<op, args, err, exc, ret, was, prev>>
locals == <<pc, choice, low, created, at, calls, shown>>

\* ----------------------------------------------------------------- inputs
Max(a, b) == IF a >= b THEN a ELSE b

\* d[k] = v on a dict
Put(d, k, v) == [x \in DOMAIN d \cup {k} |-> IF x = k THEN v ELSE d[x]]

Qtys == -1 .. MaxQty
\* Optional[int]: <<>> is None, <<q>> is the integer q
OptQtys == {<<>>} \cup {<<q>> : q \in Qtys}

CategoryIds == FirstCatId .. (FirstCatId + MaxCategories - 1)
SupplierIds == FirstSupId .. (FirstSupId + MaxSuppliers - 1)
ItemIds     == FirstItemId .. (FirstItemId + MaxItems - 1)
OrderIds    == FirstPoId .. (FirstPoId + MaxOrders - 1)

CategoryNames == {"Beverage"}
SupplierNames == {<<"Main Distributor", "sales@maindist.com">>}
Dates == {"2025-01-01"}

\* strings that are searched are sequences of characters
Milk == <<"M", "i", "l", "k">>
Cups == <<"C", "u", "p", "s">>
\* the name, price (in cents) and numeric arguments of add_item that are
\* explored: one item in range, one with every number below its minimum
ItemInputs ==
    { [name |-> Milk, price |-> 120, current_stock |-> 2,
       reorder_level |-> 1, reorder_qty |-> 2],
      [name |-> Cups, price |-> 699, current_stock |-> -1,
       reorder_level |-> -1, reorder_qty |-> 0] }

Keywords == { <<>>, <<" ", "I", "L">>, <<"s", " ">>, <<"x">> }

OPEN == "OPEN"
SUBMITTED == "SUBMITTED"
RECEIVED == "RECEIVED"
CANCELED == "CANCELED"
Statuses == {OPEN, SUBMITTED, RECEIVED, CANCELED}

\* ------------------------------------------------------------ observation
\* the caller is between two calls
Idle == op = ""

Returns(o, a, r, w) ==
    /\ op' = o /\ args' = a /\ err' = "" /\ exc' = "" /\ ret' = r /\ was' = w
    /\ prev' = IF o = "add_stock" THEN <<a[1], a[2], items[a[1]].currentStock>>
               ELSE IF o = "consume_stock" /\ prev # <<>> /\ a = <<prev[1], prev[2]>>
               THEN prev
               ELSE <<>>

\* raise ValueError(msg): nothing was assigned before the raise
Raises(o, a, msg) ==
    /\ op' = o /\ args' = a /\ err' = msg /\ exc' = "ValueError"
    /\ ret' = <<>> /\ was' = "" /\ prev' = <<>>
    /\ UNCHANGED <<state, counters>>

\* ------------------------------------------------------------------- Init
\* inv = InventorySystem(), nothing called yet
Constructed ==
    /\ cat_id = FirstCatId
    /\ sup_id = FirstSupId
    /\ item_id = FirstItemId
    /\ po_id = FirstPoId
    /\ categories = << >>
    /\ suppliers = << >>
    /\ items = << >>
    /\ orders = << >>
    /\ issued = [cat |-> {}, sup |-> {}, item |-> {}, po |-> {}]
    /\ op = "" /\ args = <<>> /\ err = "" /\ exc = "" /\ ret = <<>> /\ was = ""
    /\ prev = <<>>
    /\ choice = "" /\ low = <<>> /\ created = <<>> /\ at = 0
    /\ calls = 0 /\ shown = ""

Init == Constructed /\ pc = "caller"

\* number of stored entities
Created ==
    Cardinality(DOMAIN categories) + Cardinality(DOMAIN suppliers)
        + Cardinality(DOMAIN items) + Cardinality(DOMAIN orders)

\* the states that are explored: a call that would lead beyond them is not
\* made (nothing in the program limits these numbers)
Within ==
    /\ Cardinality(DOMAIN categories) <= MaxCategories
    /\ Cardinality(DOMAIN suppliers) <= MaxSuppliers
    /\ Cardinality(DOMAIN items) <= MaxItems
    /\ Cardinality(DOMAIN orders) <= MaxOrders
    /\ Created <= MaxEntities
    /\ \A i \in DOMAIN items : items[i].currentStock <= MaxStock
    /\ \A o \in DOMAIN orders : \A i \in DOMAIN orders[o].items :
            orders[o].items[i] <= MaxLineQty

\* ---------------------------------------------------- Category / Supplier
add_category(name) ==
    /\ Idle
    /\ categories' = Put(categories, cat_id, [categoryID |-> cat_id, name |-> name])
    /\ cat_id' = cat_id + 1
    /\ issued' = [issued EXCEPT !.cat = @ \cup {cat_id}]
    /\ UNCHANGED <<sup_id, item_id, po_id, suppliers, items, orders>>
    /\ Returns("add_category", <<name>>, <<cat_id>>, "")

add_supplier(name, contact) ==
    /\ Idle
    /\ suppliers' = Put(suppliers, sup_id,
                           [supplierID |-> sup_id, name |-> name, contactInfo |-> contact])
    /\ sup_id' = sup_id + 1
    /\ issued' = [issued EXCEPT !.sup = @ \cup {sup_id}]
    /\ UNCHANGED <<cat_id, item_id, po_id, categories, items, orders>>
    /\ Returns("add_supplier", <<name, contact>>, <<sup_id>>, "")

\* ------------------------------------------------------------------ Items
\* the item built with the reorder level and quantity as they are given
NewItem_unclamped(iid, inp, category_id, supplier_id) ==
    [itemID |-> iid, name |-> inp.name, price |-> inp.price,
     categoryID |-> category_id, supplierID |-> supplier_id,
     currentStock |-> Max(0, inp.current_stock),
     reorderLevel |-> inp.reorder_level,
     reorderQty |-> inp.reorder_qty]

\* InventoryItem(...) as add_item builds it; the arguments are integers, on
\* which int() changes nothing
NewItem(iid, inp, category_id, supplier_id) ==
    [itemID |-> iid, name |-> inp.name, price |-> inp.price,
     categoryID |-> category_id, supplierID |-> supplier_id,
     currentStock |-> Max(0, inp.current_stock),
     reorderLevel |-> Max(0, inp.reorder_level),
     reorderQty |-> Max(1, inp.reorder_qty)]

\* add_item storing the item before it looks at the supplier
add_item_partial(inp, category_id, supplier_id) ==
    /\ Idle
    /\ IF category_id \notin DOMAIN categories
       THEN Raises("add_item", <<inp, category_id, supplier_id>>, "Category does not exist")
       ELSE /\ items' = Put(items, item_id, NewItem(item_id, inp, category_id, supplier_id))
            /\ item_id' = item_id + 1
            /\ issued' = [issued EXCEPT !.item = @ \cup {item_id}]
            /\ UNCHANGED <<cat_id, sup_id, po_id, categories, suppliers, orders>>
            /\ op' = "add_item" /\ args' = <<inp, category_id, supplier_id>> /\ was' = ""
            /\ prev' = <<>>
            /\ IF supplier_id \notin DOMAIN suppliers
               THEN err' = "Supplier does not exist" /\ exc' = "ValueError" /\ ret' = <<>>
               ELSE err' = "" /\ exc' = "" /\ ret' = <<item_id>>

\* add_item reading the counter without advancing it
add_item_same_id(inp, category_id, supplier_id) ==
    /\ Idle
    /\ IF category_id \notin DOMAIN categories
       THEN Raises("add_item", <<inp, category_id, supplier_id>>, "Category does not exist")
       ELSE IF supplier_id \notin DOMAIN suppliers
       THEN Raises("add_item", <<inp, category_id, supplier_id>>, "Supplier does not exist")
       ELSE /\ items' = Put(items, item_id, NewItem(item_id, inp, category_id, supplier_id))
            /\ issued' = [issued EXCEPT !.item = @ \cup {item_id}]
            /\ UNCHANGED <<cat_id, sup_id, item_id, po_id, categories, suppliers, orders>>
            /\ Returns("add_item", <<inp, category_id, supplier_id>>, <<item_id>>, "")

\* add_item without the two existence checks
add_item_unchecked(inp, category_id, supplier_id) ==
    /\ Idle
    /\ items' = Put(items, item_id, NewItem(item_id, inp, category_id, supplier_id))
    /\ item_id' = item_id + 1
    /\ issued' = [issued EXCEPT !.item = @ \cup {item_id}]
    /\ UNCHANGED <<cat_id, sup_id, po_id, categories, suppliers, orders>>
    /\ Returns("add_item", <<inp, category_id, supplier_id>>, <<item_id>>, "")

\* add_item looking at the supplier before the category
add_item_supplier_first(inp, category_id, supplier_id) ==
    /\ Idle
    /\ IF supplier_id \notin DOMAIN suppliers
       THEN Raises("add_item", <<inp, category_id, supplier_id>>, "Supplier does not exist")
       ELSE IF category_id \notin DOMAIN categories
       THEN Raises("add_item", <<inp, category_id, supplier_id>>, "Category does not exist")
       ELSE /\ items' = Put(items, item_id, NewItem(item_id, inp, category_id, supplier_id))
            /\ item_id' = item_id + 1
            /\ issued' = [issued EXCEPT !.item = @ \cup {item_id}]
            /\ UNCHANGED <<cat_id, sup_id, po_id, categories, suppliers, orders>>
            /\ Returns("add_item", <<inp, category_id, supplier_id>>, <<item_id>>, "")

add_item(inp, category_id, supplier_id) ==
    /\ Idle
    /\ IF category_id \notin DOMAIN categories
       THEN Raises("add_item", <<inp, category_id, supplier_id>>, "Category does not exist")
       ELSE IF supplier_id \notin DOMAIN suppliers
       THEN Raises("add_item", <<inp, category_id, supplier_id>>, "Supplier does not exist")
       ELSE /\ items' = Put(items, item_id, NewItem(item_id, inp, category_id, supplier_id))
            /\ item_id' = item_id + 1
            /\ issued' = [issued EXCEPT !.item = @ \cup {item_id}]
            /\ UNCHANGED <<cat_id, sup_id, po_id, categories, suppliers, orders>>
            /\ Returns("add_item", <<inp, category_id, supplier_id>>, <<item_id>>, "")

\* add_stock adding qty as it is given
add_stock_unclamped(iid, q) ==
    /\ Idle
    /\ IF iid \notin DOMAIN items
       THEN Raises("add_stock", <<iid, q>>, "Item not found")
       ELSE /\ items' = [items EXCEPT ![iid].currentStock = @ + q]
            /\ UNCHANGED <<counters, categories, suppliers, orders>>
            /\ Returns("add_stock", <<iid, q>>, <<>>, "")

add_stock(iid, q) ==
    /\ Idle
    /\ IF iid \notin DOMAIN items
       THEN Raises("add_stock", <<iid, q>>, "Item not found")
       ELSE /\ items' = [items EXCEPT ![iid].currentStock = @ + Max(0, q)]
            /\ UNCHANGED <<counters, categories, suppliers, orders>>
            /\ Returns("add_stock", <<iid, q>>, <<>>, "")

\* consume_stock without the sufficiency test
consume_stock_unchecked(iid, q) ==
    /\ Idle
    /\ IF iid \notin DOMAIN items
       THEN Raises("consume_stock", <<iid, q>>, "Item not found")
       ELSE /\ items' = [items EXCEPT ![iid].currentStock = @ - Max(0, q)]
            /\ UNCHANGED <<counters, categories, suppliers, orders>>
            /\ Returns("consume_stock", <<iid, q>>, <<TRUE>>, "")

\* consume_stock taking what there is when there is not enough
consume_stock_partial(iid, q) ==
    /\ Idle
    /\ IF iid \notin DOMAIN items
       THEN Raises("consume_stock", <<iid, q>>, "Item not found")
       ELSE LET qty == Max(0, q)
                item == items[iid]
            IN IF item.currentStock >= qty
               THEN /\ items' = [items EXCEPT ![iid].currentStock = @ - qty]
                    /\ UNCHANGED <<counters, categories, suppliers, orders>>
                    /\ Returns("consume_stock", <<iid, q>>, <<TRUE>>, "")
               ELSE /\ items' = [items EXCEPT ![iid].currentStock = 0]
                    /\ UNCHANGED <<counters, categories, suppliers, orders>>
                    /\ Returns("consume_stock", <<iid, q>>, <<FALSE>>, "")

consume_stock(iid, q) ==
    /\ Idle
    /\ IF iid \notin DOMAIN items
       THEN Raises("consume_stock", <<iid, q>>, "Item not found")
       ELSE LET qty == Max(0, q)
                item == items[iid]
            IN IF item.currentStock >= qty
               THEN /\ items' = [items EXCEPT ![iid].currentStock = @ - qty]
                    /\ UNCHANGED <<counters, categories, suppliers, orders>>
                    /\ Returns("consume_stock", <<iid, q>>, <<TRUE>>, "")
               ELSE /\ UNCHANGED <<counters, state>>
                    /\ Returns("consume_stock", <<iid, q>>, <<FALSE>>, "")

\* the values of a dict in insertion order: ids are inserted in increasing
\* order and never deleted, so insertion order is ascending id order
RECURSIVE Ascending(_)
Ascending(S) ==
    IF S = {} THEN <<>>
    ELSE LET m == CHOOSE x \in S : \A y \in S : x <= y
         IN <<m>> \o Ascending(S \ {m})

Values(d) == [k \in 1 .. Cardinality(DOMAIN d) |-> d[Ascending(DOMAIN d)[k]]]

\* the test with < for <=
IsLow_strict(it) == it.currentStock < it.reorderLevel

IsLow(it) == it.currentStock <= it.reorderLevel

low_stock_items ==
    /\ Idle
    /\ UNCHANGED <<counters, state>>
    /\ Returns("low_stock_items", <<>>, <<SelectSeq(Values(items), IsLow)>>, "")

\* str.lower() on the characters that occur in names and keywords
Lower(c) ==
    CASE c = "M" -> "m" [] c = "I" -> "i" [] c = "L" -> "l" [] c = "K" -> "k"
      [] c = "C" -> "c" [] c = "U" -> "u" [] c = "P" -> "p" [] c = "S" -> "s"
      [] c = "E" -> "e" [] c = "B" -> "b" [] c = "T" -> "t"
      [] OTHER -> c

lower(str) == [i \in 1 .. Len(str) |-> Lower(str[i])]

\* str.strip(): leading and trailing blanks removed
RECURSIVE strip(_)
strip(str) ==
    IF str = <<>> THEN str
    ELSE IF Head(str) = " " THEN strip(Tail(str))
    ELSE IF str[Len(str)] = " " THEN strip(SubSeq(str, 1, Len(str) - 1))
    ELSE str

\* k in s, for strings
Contains(k, str) ==
    \E i \in 0 .. (Len(str) - Len(k)) : SubSeq(str, i + 1, i + Len(k)) = k

search_items(keyword) ==
    /\ Idle
    /\ LET k == strip(lower(keyword))
           Match(it) == Contains(k, lower(it.name))
       IN /\ UNCHANGED <<counters, state>>
          /\ Returns("search_items", <<keyword>>, <<SelectSeq(Values(items), Match)>>, "")

\* -------------------------------------------------------- Purchase orders
\* the line overwritten instead of added to
AddLine_overwrite(lines, iid, q) ==
    [k \in DOMAIN lines \cup {iid} |-> IF k = iid THEN Max(0, q) ELSE lines[k]]

\* PurchaseOrder.add_item on the dict of lines.  The lines are a function from
\* itemID to quantity: the order in which a dict holds its keys shows only in
\* the text orders_table joins, which is not modelled.
AddLine(lines, iid, q) ==
    LET old == IF iid \in DOMAIN lines THEN lines[iid] ELSE 0
    IN [k \in DOMAIN lines \cup {iid} |->
            IF k = iid THEN old + Max(0, q) ELSE lines[k]]

NewOrder(oid, date, supplier_id) ==
    [orderID |-> oid, orderDate |-> date, supplierID |-> supplier_id,
     status |-> OPEN, items |-> << >>]

create_purchase_order(supplier_id, date) ==
    /\ Idle
    /\ IF supplier_id \notin DOMAIN suppliers
       THEN Raises("create_purchase_order", <<supplier_id>>, "Supplier not found")
       ELSE /\ orders' = Put(orders, po_id, NewOrder(po_id, date, supplier_id))
            /\ po_id' = po_id + 1
            /\ issued' = [issued EXCEPT !.po = @ \cup {po_id}]
            /\ UNCHANGED <<cat_id, sup_id, item_id, categories, suppliers, items>>
            /\ Returns("create_purchase_order", <<supplier_id>>, <<po_id>>, "")

\* PurchaseOrder.add_item called on a stored order
PurchaseOrder_add_item(oid, iid, q) ==
    /\ Idle
    /\ oid \in DOMAIN orders
    /\ LET lines == AddLine(orders[oid].items, iid, q)
       IN /\ orders' = [orders EXCEPT ![oid].items = lines]
    /\ UNCHANGED <<counters, categories, suppliers, items>>
    /\ Returns("PurchaseOrder.add_item", <<oid, iid, q>>, <<>>, "")

\* the default taken from the reorder level instead of the reorder quantity
OrderQty_level(item, oq) == IF oq # <<>> THEN oq[1] ELSE item.reorderLevel

\* qty if qty is not None else item.reorderQty; oq is the Optional[int] qty
OrderQty(item, oq) == IF oq # <<>> THEN oq[1] ELSE item.reorderQty

create_order_for_item(iid, oq, date) ==
    /\ Idle
    /\ IF iid \notin DOMAIN items
       THEN Raises("create_order_for_item", <<iid, oq>>, "Item not found")
       ELSE LET item == items[iid]
                lines == AddLine(<< >>, iid, OrderQty(item, oq))
            IN IF item.supplierID \notin DOMAIN suppliers
               THEN Raises("create_order_for_item", <<iid, oq>>, "Supplier not found")
               ELSE /\ orders' = Put(orders, po_id,
                                      [NewOrder(po_id, date, item.supplierID)
                                          EXCEPT !.items = lines])
                    /\ po_id' = po_id + 1
                    /\ issued' = [issued EXCEPT !.po = @ \cup {po_id}]
                    /\ UNCHANGED <<cat_id, sup_id, item_id, categories, suppliers, items>>
                    /\ Returns("create_order_for_item", <<iid, oq>>, <<po_id>>, "")

\* submit_order writing the status of a new order
submit_order_reopens(oid) ==
    /\ Idle
    /\ IF oid \notin DOMAIN orders
       THEN Raises("submit_order", <<oid>>, "Order not found")
       ELSE /\ orders' = [orders EXCEPT ![oid].status = OPEN]
            /\ UNCHANGED <<counters, categories, suppliers, items>>
            /\ Returns("submit_order", <<oid>>, <<>>, orders[oid].status)

submit_order(oid) ==
    /\ Idle
    /\ IF oid \notin DOMAIN orders
       THEN Raises("submit_order", <<oid>>, "Order not found")
       ELSE /\ orders' = [orders EXCEPT ![oid].status = SUBMITTED]
            /\ UNCHANGED <<counters, categories, suppliers, items>>
            /\ Returns("submit_order", <<oid>>, <<>>, orders[oid].status)

\* the stock after the loop over po.items: lines of unknown items are skipped
Received(po) ==
    [i \in DOMAIN items |->
        IF i \in DOMAIN po.items
        THEN [items[i] EXCEPT !.currentStock = @ + po.items[i]]
        ELSE items[i]]

\* receive_order applying the lines only the first time an order is received
receive_order_once(oid) ==
    /\ Idle
    /\ IF oid \notin DOMAIN orders
       THEN Raises("receive_order", <<oid>>, "Order not found")
       ELSE /\ items' = IF orders[oid].status = RECEIVED THEN items
                        ELSE Received(orders[oid])
            /\ orders' = [orders EXCEPT ![oid].status = RECEIVED]
            /\ UNCHANGED <<counters, categories, suppliers>>
            /\ Returns("receive_order", <<oid>>, <<>>, orders[oid].status)

\* receive_order without the test "if item_id in self.items": the lookup of
\* an unknown item raises KeyError
receive_order_unguarded(oid) ==
    /\ Idle
    /\ IF oid \notin DOMAIN orders
       THEN Raises("receive_order", <<oid>>, "Order not found")
       ELSE IF DOMAIN orders[oid].items \subseteq DOMAIN items
       THEN /\ items' = Received(orders[oid])
            /\ orders' = [orders EXCEPT ![oid].status = RECEIVED]
            /\ UNCHANGED <<counters, categories, suppliers>>
            /\ Returns("receive_order", <<oid>>, <<>>, orders[oid].status)
       ELSE /\ op' = "receive_order" /\ args' = <<oid>> /\ err' = "KeyError"
            /\ exc' = "KeyError" /\ ret' = <<>> /\ was' = "" /\ prev' = <<>>
            /\ UNCHANGED <<state, counters>>

receive_order(oid) ==
    /\ Idle
    /\ IF oid \notin DOMAIN orders
       THEN Raises("receive_order", <<oid>>, "Order not found")
       ELSE /\ items' = Received(orders[oid])
            /\ orders' = [orders EXCEPT ![oid].status = RECEIVED]
            /\ UNCHANGED <<counters, categories, suppliers>>
            /\ Returns("receive_order", <<oid>>, <<>>, orders[oid].status)

\* cancel_order with receive_order's loop left in
cancel_order_applies(oid) ==
    /\ Idle
    /\ IF oid \notin DOMAIN orders
       THEN Raises("cancel_order", <<oid>>, "Order not found")
       ELSE /\ items' = Received(orders[oid])
            /\ orders' = [orders EXCEPT ![oid].status = CANCELED]
            /\ UNCHANGED <<counters, categories, suppliers>>
            /\ Returns("cancel_order", <<oid>>, <<>>, orders[oid].status)

cancel_order(oid) ==
    /\ Idle
    /\ IF oid \notin DOMAIN orders
       THEN Raises("cancel_order", <<oid>>, "Order not found")
       ELSE /\ orders' = [orders EXCEPT ![oid].status = CANCELED]
            /\ UNCHANGED <<counters, categories, suppliers, items>>
            /\ Returns("cancel_order", <<oid>>, <<>>, orders[oid].status)

\* -------------------------------------------------------------- Reporting
\* The rows keep each cell's value; the rendering of a cell as text (str(),
\* the two-decimal price, the joined lines) is not modelled.
to_row(it) ==
    <<it.itemID, it.name, it.price, it.categoryID, it.supplierID,
      it.currentStock, it.reorderLevel, it.reorderQty>>

inventory_table ==
    /\ Idle
    /\ LET header == <<"ID", "Item", "Price", "CatID", "SupID", "Stock", "Reorder", "ReorderQty">>
           sorted == Ascending(DOMAIN items)
           rows == [k \in 1 .. Len(sorted) |-> to_row(items[sorted[k]])]
       IN /\ UNCHANGED <<counters, state>>
          /\ Returns("inventory_table", <<>>, <<(<<header>> \o rows)>>, "")

orders_table ==
    /\ Idle
    /\ LET header == <<"OrderID", "Date", "SupplierID", "Status", "Lines (itemID:qty)">>
           sorted == Ascending(DOMAIN orders)
           row(po) == <<po.orderID, po.orderDate, po.supplierID, po.status, po.items>>
           rows == [k \in 1 .. Len(sorted) |-> row(orders[sorted[k]])]
       IN /\ UNCHANGED <<counters, state>>
          /\ Returns("orders_table", <<>>, <<(<<header>> \o rows)>>, "")

\* the outcome of the call is taken: the caller is between two calls again
Taken ==
    /\ op' = "" /\ args' = <<>> /\ err' = "" /\ exc' = "" /\ ret' = <<>> /\ was' = ""
    /\ prev' = IF op = "add_stock" THEN prev ELSE <<>>

\* a caller other than main(): it may make any call, within the bounds
Free == Within' /\ UNCHANGED locals

\* the caller takes the outcome of the call and goes on
Resume ==
    /\ op # ""
    /\ Taken
    /\ UNCHANGED <<state, counters, locals>>

\* ------------------------------------------------------------------- Next
Next ==
    \/ \E n \in CategoryNames : add_category(n) /\ Free
    \/ \E n \in SupplierNames : add_supplier(n[1], n[2]) /\ Free
    \/ \E inp \in ItemInputs, c \in CategoryIds, s \in SupplierIds : add_item(inp, c, s) /\ Free
    \/ \E k \in Keywords : search_items(k) /\ Free
    \/ \E i \in ItemIds, q \in Qtys : add_stock(i, q) /\ Free
    \/ \E i \in ItemIds, q \in Qtys : consume_stock(i, q) /\ Free
    \/ low_stock_items /\ Free
    \/ \E s \in SupplierIds, d \in Dates : create_purchase_order(s, d) /\ Free
    \/ \E o \in OrderIds, i \in ItemIds, q \in Qtys : PurchaseOrder_add_item(o, i, q) /\ Free
    \/ \E i \in ItemIds, oq \in OptQtys, d \in Dates : create_order_for_item(i, oq, d) /\ Free
    \/ \E o \in OrderIds : submit_order(o) /\ Free
    \/ \E o \in OrderIds : receive_order(o) /\ Free
    \/ \E o \in OrderIds : cancel_order(o) /\ Free
    \/ inventory_table /\ Free
    \/ orders_table /\ Free
    \/ Resume

Spec == Init /\ [][Next]_vars

\* ================================================================== main
\* ---------------------------------------------------------- seed_demo_data
EspressoBeans == <<"E", "s", "p", "r", "e", "s", "s", "o", " ",
                   "B", "e", "a", "n", "s", " ", "(", "1", "k", "g", ")">>
Milk1L == <<"M", "i", "l", "k", " ", "(", "1", "L", ")">>
Croissant == <<"C", "r", "o", "i", "s", "s", "a", "n", "t">>
SugarPackets == <<"S", "u", "g", "a", "r", " ",
                  "P", "a", "c", "k", "e", "t", "s", " ", "(", "b", "o", "x", ")">>
Cups100 == <<"C", "u", "p", "s", " ", "(", "1", "0", "0", "c", "t", ")">>

\* the calls of seed_demo_data, in its order.  c_food, c_bev, c_sup, s_main
\* and s_bakery are what the first calls return: the first ids of the
\* counters, as nothing was created before.  Prices are in cents.
SeedCalls ==
    LET c_food == FirstCatId
        c_bev == FirstCatId + 1
        c_sup == FirstCatId + 2
        s_main == FirstSupId
        s_bakery == FirstSupId + 1
        Item(n, p, c, s, stock, level, qty) ==
            [f |-> "add_item", category_id |-> c, supplier_id |-> s,
             inp |-> [name |-> n, price |-> p, current_stock |-> stock,
                      reorder_level |-> level, reorder_qty |-> qty]]
    IN << [f |-> "add_category", name |-> "Food"],
          [f |-> "add_category", name |-> "Beverage"],
          [f |-> "add_category", name |-> "Supply"],
          [f |-> "add_supplier", name |-> "Main Distributor",
           contact |-> "sales@maindist.com / (555) 123-4567"],
          [f |-> "add_supplier", name |-> "Sunrise Bakery",
           contact |-> "orders@sunrise.com / (555) 222-3456"],
          Item(EspressoBeans, 1650, c_bev, s_main, 8, 5, 6),
          Item(Milk1L, 120, c_bev, s_main, 12, 8, 12),
          Item(Croissant, 240, c_food, s_bakery, 6, 6, 24),
          Item(SugarPackets, 499, c_sup, s_main, 3, 5, 10),
          Item(Cups100, 699, c_sup, s_main, 15, 10, 10) >>

\* main() before the loop: inv = InventorySystem()
MainInit == Constructed /\ pc = "seed"

\* the next call of seed_demo_data: each call creates one entity, so the
\* number of entities tells which call is next
seed_demo_data ==
    /\ pc = "seed" /\ Created < Len(SeedCalls)
    /\ LET c == SeedCalls[Created + 1]
       IN IF c.f = "add_category" THEN add_category(c.name)
          ELSE IF c.f = "add_supplier" THEN add_supplier(c.name, c.contact)
          ELSE add_item(c.inp, c.category_id, c.supplier_id)
    /\ UNCHANGED locals

\* the call has returned (its value, an id, is kept or dropped); after the
\* last one main() enters the loop and prompts
seed_returned ==
    /\ pc = "seed" /\ op # "" /\ exc = ""
    /\ Taken
    /\ pc' = IF Created = Len(SeedCalls) THEN "menu" ELSE "seed"
    /\ UNCHANGED <<state, counters, choice, low, created, at, calls, shown>>

\* the states explored under main()
MainWithin ==
    /\ Cardinality(DOMAIN items) <= MainMaxItems
    /\ Cardinality(DOMAIN orders) <= MainMaxOrders
    /\ \A i \in DOMAIN items : items[i].currentStock <= MainMaxStock

\* ------------------------------------------------------------ what is typed
\* choice, stripped: the ten choices of the menu and one that is none of them
Choices == {"0", "1", "2", "3", "4", "5", "6", "7", "8", "9", "x"}
\* the choices that have a branch of their own besides "0"
Handled == Choices \ {"0", "x"}
\* the choices whose branch prompts before its call, and those among them
\* that pass an answer to int() or float()
Prompting == {"2", "3", "4", "5", "7", "9"}
Parsing == {"2", "4", "5", "7", "9"}

\* ids and quantities typed: Sugar Packets and no item; the first two orders
\* and no order; a negative and a positive quantity, and no quantity
TypedItemIds == {FirstItemId + 3, FirstItemId - 1}
TypedOrderIds == {FirstPoId, FirstPoId + 1, FirstPoId - 1}
TypedQtys == {-1, 4}
TypedOptQtys == {<<>>} \cup {<<q>> : q \in TypedQtys}
TypedKeywords == { <<" ", "S", "U", "G", " ">>, <<"(">> }
\* choice 2: an item with the three defaults "0", "5", "10" taken, for the
\* Beverage category or none and the main supplier or none
Tea == <<"T", "e", "a">>
TypedItems == { [name |-> Tea, price |-> 250, current_stock |-> 0,
                 reorder_level |-> 5, reorder_qty |-> 10] }
TypedCategoryIds == {FirstCatId + 1, FirstCatId - 1}
TypedSupplierIds == {FirstSupId, FirstSupId - 1}
\* do_order, stripped and lowered
Answers == {"y", "n"}

\* --------------------------------------------------------------- the loop
\* exception classes that "except Exception" catches; KeyboardInterrupt is a
\* BaseException and no Exception
Exception == {"ValueError", "EOFError", "KeyError"}

\* str(e) of what input(), int() and float() raise
Message(e) ==
    IF e = "EOFError" THEN "EOF when reading a line"
    ELSE IF e = "ValueError" THEN "invalid literal"
    ELSE ""

\* input(), int() or float() raises e
InputRaises(e) ==
    /\ op' = "input" /\ args' = <<>> /\ err' = Message(e) /\ exc' = e
    /\ ret' = <<>> /\ was' = "" /\ prev' = <<>>
    /\ UNCHANGED <<state, counters>>

\* choice = input(menu).strip().  low, created and the loop position are not
\* read again before they are assigned: they are reset here
main_menu(c) ==
    /\ pc = "menu"
    /\ Taken
    /\ choice' = c /\ low' = <<>> /\ created' = <<>> /\ at' = 0
    /\ calls' = 0 /\ shown' = ""
    /\ pc' = IF c = "0" THEN "done" ELSE IF c \in Handled THEN "action" ELSE "menu"
    /\ UNCHANGED <<state, counters>>

\* except (EOFError, KeyboardInterrupt): break
main_menu_interrupted(e) ==
    /\ pc = "menu" /\ e \in {"EOFError", "KeyboardInterrupt"}
    /\ InputRaises(e)
    /\ pc' = "done"
    /\ UNCHANGED <<choice, low, created, at, calls, shown>>

\* a prompt inside a branch, or the conversion of its answer, raises e
main_input_raises(e) ==
    /\ Idle
    /\ \/ pc = "action" /\ choice \in Prompting
       \/ pc = "ask"
    /\ e = "ValueError" => (pc = "action" /\ choice \in Parsing)
    /\ InputRaises(e)
    /\ pc' = "called"
    /\ UNCHANGED <<choice, low, created, at, calls, shown>>

\* a call into InventorySystem is made from the branch
Call ==
    /\ MainWithin'
    /\ pc' = "called" /\ calls' = calls + 1
    /\ UNCHANGED <<choice, low, created, at, shown>>

main_choice1 == pc = "action" /\ choice = "1" /\ inventory_table /\ Call

main_choice2 ==
    /\ pc = "action" /\ choice = "2"
    /\ \E inp \in TypedItems, c \in TypedCategoryIds, s \in TypedSupplierIds :
          add_item(inp, c, s)
    /\ Call

main_choice3 ==
    /\ pc = "action" /\ choice = "3"
    /\ \E q \in TypedKeywords : search_items(strip(q))
    /\ Call

main_choice4 ==
    /\ pc = "action" /\ choice = "4"
    /\ \E iid \in TypedItemIds, qty \in TypedQtys : consume_stock(iid, qty)
    /\ Call

main_choice5 ==
    /\ pc = "action" /\ choice = "5"
    /\ \E iid \in TypedItemIds, qty \in TypedQtys : add_stock(iid, qty)
    /\ Call

main_choice6 == pc = "action" /\ choice = "6" /\ low_stock_items /\ Call

\* do_order = input(...).strip().lower(); created = [] if it is "y"
main_choice6_answer(a) ==
    /\ pc = "ask" /\ Idle
    /\ pc' = IF a = "y" THEN "create" ELSE "menu"
    /\ created' = <<>> /\ at' = 0
    /\ UNCHANGED <<state, counters, observed, choice, low, calls, shown>>

\* for it in low: po_id = inv.create_order_for_item(it.itemID)
main_choice6_create ==
    /\ pc = "create"
    /\ \E d \in Dates : create_order_for_item(low[Len(created) + 1], <<>>, d)
    /\ Call

main_choice7 ==
    /\ pc = "action" /\ choice = "7"
    /\ \E iid \in TypedItemIds, qty \in TypedOptQtys, d \in Dates :
          create_order_for_item(iid, qty, d)
    /\ Call

\* the loop over created submitting its first order every time
main_submit_first ==
    /\ pc = "submit"
    /\ submit_order(created[1])
    /\ Call

\* inv.submit_order(poid): of choice 7, and of the loop over created
main_submit ==
    /\ pc = "submit"
    /\ submit_order(created[at + 1])
    /\ Call

main_choice8 == pc = "action" /\ choice = "8" /\ orders_table /\ Call

main_choice9 ==
    /\ pc = "action" /\ choice = "9"
    /\ \E oid \in TypedOrderIds : receive_order(oid)
    /\ Call

\* choice 7 without its inv.submit_order(poid)
main_returned_unsubmitted ==
    /\ pc = "called" /\ exc = ""
    /\ Taken
    /\ IF op = "low_stock_items"
       THEN /\ low' = [k \in 1 .. Len(ret[1]) |-> ret[1][k].itemID]
            /\ pc' = IF ret[1] = <<>> THEN "menu" ELSE "ask"
            /\ UNCHANGED <<created, at>>
       ELSE IF op = "create_order_for_item" /\ choice = "7"
       THEN /\ created' = <<ret[1]>> /\ at' = 0
            /\ pc' = "menu"
            /\ UNCHANGED low
       ELSE IF op = "create_order_for_item"
       THEN /\ created' = Append(created, ret[1])
            /\ pc' = IF Len(created) + 1 = Len(low) THEN "submit" ELSE "create"
            /\ UNCHANGED <<low, at>>
       ELSE IF op = "submit_order"
       THEN /\ at' = at + 1
            /\ pc' = IF at + 1 = Len(created) THEN "menu" ELSE "submit"
            /\ UNCHANGED <<low, created>>
       ELSE /\ pc' = "menu"
            /\ UNCHANGED <<low, created, at>>
    /\ UNCHANGED <<state, counters, choice, calls, shown>>

\* the call has returned: the branch goes on, to its next call, to its
\* prompt or, having printed, to the end of the loop body
main_returned ==
    /\ pc = "called" /\ exc = ""
    /\ Taken
    /\ IF op = "low_stock_items"
       THEN /\ low' = [k \in 1 .. Len(ret[1]) |-> ret[1][k].itemID]
            /\ pc' = IF ret[1] = <<>> THEN "menu" ELSE "ask"
            /\ UNCHANGED <<created, at>>
       ELSE IF op = "create_order_for_item" /\ choice = "7"
       THEN /\ created' = <<ret[1]>> /\ at' = 0
            /\ pc' = "submit"
            /\ UNCHANGED low
       ELSE IF op = "create_order_for_item"
       THEN /\ created' = Append(created, ret[1])
            /\ pc' = IF Len(created) + 1 = Len(low) THEN "submit" ELSE "create"
            /\ UNCHANGED <<low, at>>
       ELSE IF op = "submit_order"
       THEN /\ at' = at + 1
            /\ pc' = IF at + 1 = Len(created) THEN "menu" ELSE "submit"
            /\ UNCHANGED <<low, created>>
       ELSE /\ pc' = "menu"
            /\ UNCHANGED <<low, created, at>>
    /\ UNCHANGED <<state, counters, choice, calls, shown>>

\* the loop body without its except clause
main_except_absent ==
    /\ pc = "called" /\ exc # ""
    /\ pc' = "raised"
    /\ UNCHANGED <<state, counters, observed, choice, low, created, at, calls, shown>>

\* the call, or a prompt, has raised: except Exception as e prints the
\* message and the loop goes on; what is no Exception leaves main()
main_except ==
    /\ pc = "called" /\ exc # ""
    /\ IF exc \in Exception
       THEN Taken /\ pc' = "menu" /\ shown' = err
       ELSE UNCHANGED observed /\ pc' = "raised" /\ UNCHANGED shown
    /\ UNCHANGED <<state, counters, choice, low, created, at, calls>>

MainNext ==
    \/ seed_demo_data
    \/ seed_returned
    \/ \E c \in Choices : main_menu(c)
    \/ \E e \in {"EOFError", "KeyboardInterrupt"} : main_menu_interrupted(e)
    \/ \E e \in {"ValueError", "EOFError", "KeyboardInterrupt"} : main_input_raises(e)
    \/ main_choice1
    \/ main_choice2
    \/ main_choice3
    \/ main_choice4
    \/ main_choice5
    \/ main_choice6
    \/ \E a \in Answers : main_choice6_answer(a)
    \/ main_choice6_create
    \/ main_choice7
    \/ main_submit
    \/ main_choice8
    \/ main_choice9
    \/ main_returned
    \/ main_except

MainSpec == MainInit /\ [][MainNext]_vars

\* ============================================================ properties
Stock(i) == items[i].currentStock

\* C1: in every reachable state every item's currentStock is >= 0, whatever
\* calls were made and whatever (also negative) quantities they were given.
C1_StockNeverNegative == \A i \in DOMAIN items : Stock(i) >= 0

\* a consumption was refused for an item that has nothing left
C1_Witness ==
    /\ op = "consume_stock" /\ err = "" /\ ret = <<FALSE>>
    /\ Stock(args[1]) = 0

\* C2: for an existing item, consume_stock(itemID, qty) with q = max(0, qty)
\* returns true and takes exactly q off currentStock when currentStock >= q,
\* and otherwise returns false and leaves currentStock as it was.
C2_ConsumeAllOrNothing ==
    [][(op' = "consume_stock" /\ args'[1] \in DOMAIN items) =>
          LET i == args'[1]
              q == Max(0, args'[2])
          IN /\ err' = ""
             /\ IF Stock(i) >= q
                THEN ret' = <<TRUE>> /\ items'[i].currentStock = Stock(i) - q
                ELSE ret' = <<FALSE>> /\ items'[i].currentStock = Stock(i)]_vars

\* more was asked than the item has, and what it has is still there
C2_Witness ==
    /\ op = "consume_stock" /\ err = "" /\ ret = <<FALSE>>
    /\ args[2] = 2 /\ Stock(args[1]) = 1

\* C3: receive_order on an existing order, whatever its status, adds every
\* line's quantity to the stock of the line's item and sets the status to
\* RECEIVED; a second call on the same order adds the quantities again.
C3_ReceiveAppliesEveryTime ==
    [][(op' = "receive_order" /\ args'[1] \in DOMAIN orders) =>
          LET po == orders[args'[1]]
          IN /\ err' = ""
             /\ orders'[args'[1]].status = RECEIVED
             /\ \A i \in DOMAIN items :
                   items'[i].currentStock =
                      Stock(i) + (IF i \in DOMAIN po.items THEN po.items[i] ELSE 0)]_vars

\* an order with two lines of one unit each was received when it was already
\* RECEIVED: both items, empty before the first receipt, now hold two units
C3_Witness ==
    /\ op = "receive_order" /\ err = "" /\ was = RECEIVED
    /\ DOMAIN orders[args[1]].items = DOMAIN items
    /\ Cardinality(DOMAIN items) = 2
    /\ \A i \in DOMAIN items : orders[args[1]].items[i] = 1 /\ Stock(i) = 2

Terminal == {RECEIVED, CANCELED}

\* C4 as claimed: once an order's status is RECEIVED or CANCELED, no later
\* submit_order, receive_order or cancel_order call changes it.
C4_TerminalStatusKept ==
    [][\A o \in DOMAIN orders :
          orders[o].status \in Terminal => orders'[o].status = orders[o].status]_vars

\* the status a status-setting call writes
StatusSetBy(o) ==
    CASE o = "submit_order" -> SUBMITTED
      [] o = "receive_order" -> RECEIVED
      [] o = "cancel_order" -> CANCELED

\* C4 amended: RECEIVED and CANCELED are not guarded.  An order that is
\* RECEIVED or CANCELED keeps its status until a submit_order, receive_order
\* or cancel_order call on that order, which writes SUBMITTED, RECEIVED or
\* CANCELED respectively; no step returns an order to OPEN.
C4_TerminalOverwrittenByCall ==
    [][\A o \in DOMAIN orders :
          /\ orders[o].status \in Terminal =>
                \/ orders'[o].status = orders[o].status
                \/ /\ op' \in {"submit_order", "receive_order", "cancel_order"}
                   /\ args' = <<o>>
                   /\ orders'[o].status = StatusSetBy(op')
          /\ orders[o].status # OPEN => orders'[o].status # OPEN]_vars

\* a RECEIVED order was submitted and is SUBMITTED again
C4_Witness ==
    /\ op = "submit_order" /\ err = "" /\ was = RECEIVED
    /\ orders[args[1]].status = SUBMITTED

\* C5: a call that fails (raises, or consume_stock returning false) leaves the
\* categories, suppliers, items and orders exactly as they were; add_item
\* with an unknown category or supplier inserts no item.
C5_FailureChangesNothing ==
    [][(err' # "" \/ (op' = "consume_stock" /\ ret' = <<FALSE>>)) =>
          /\ categories' = categories /\ suppliers' = suppliers
          /\ items' = items /\ orders' = orders]_vars

\* add_item passed its category test, failed on the supplier, and there is
\* still no item
C5_Witness ==
    /\ op = "add_item" /\ err = "Supplier does not exist"
    /\ args[2] \in DOMAIN categories
    /\ DOMAIN items = {}

\* the counter a creating call draws its identifier from
KindOf(o) ==
    CASE o = "add_category" -> "cat"
      [] o = "add_supplier" -> "sup"
      [] o = "add_item" -> "item"
      [] o \in {"create_purchase_order", "create_order_for_item"} -> "po"

Creators == {"add_category", "add_supplier", "add_item",
             "create_purchase_order", "create_order_for_item"}

\* C6: every successful creation returns an identifier greater than all
\* identifiers issued before for that type, a failed creation issues none,
\* and every stored entity is stored under its own, issued, identifier.
C6_IdsStrictlyIncrease ==
    /\ [][/\ (op' \in Creators /\ err' = "") =>
               /\ \A j \in issued[KindOf(op')] : ret'[1] > j
               /\ issued'[KindOf(op')] = issued[KindOf(op')] \cup {ret'[1]}
          /\ (op' \in Creators /\ err' # "") => issued' = issued]_vars
    /\ [](/\ DOMAIN categories = issued.cat /\ DOMAIN suppliers = issued.sup
          /\ DOMAIN items = issued.item /\ DOMAIN orders = issued.po
          /\ \A c \in DOMAIN categories : categories[c].categoryID = c
          /\ \A x \in DOMAIN suppliers : suppliers[x].supplierID = x
          /\ \A i \in DOMAIN items : items[i].itemID = i
          /\ \A o \in DOMAIN orders : orders[o].orderID = o)

\* a second order was created, for an item, after a first one
C6_Witness ==
    /\ op = "create_order_for_item" /\ err = ""
    /\ ret = <<FirstPoId + 1>>
    /\ DOMAIN orders = {FirstPoId, FirstPoId + 1}

\* the items at or below their reorder level
LowItems == {items[i] : i \in {j \in DOMAIN items : Stock(j) <= items[j].reorderLevel}}

\* C7: low_stock_items() returns exactly the items whose currentStock is
\* <= reorderLevel, each of them once and no other item.
C7_LowStockExact ==
    op = "low_stock_items" =>
        /\ err = ""
        /\ {ret[1][k] : k \in 1 .. Len(ret[1])} = LowItems
        /\ Len(ret[1]) = Cardinality(LowItems)

\* of two items the one whose stock equals its reorder level is returned and
\* the one above its level is not
C7_Witness ==
    /\ op = "low_stock_items"
    /\ Cardinality(DOMAIN items) = 2
    /\ Len(ret[1]) = 1
    /\ ret[1][1].currentStock = ret[1][1].reorderLevel
    /\ \E i \in DOMAIN items : Stock(i) > items[i].reorderLevel

\* C8: an existing item's currentStock changes only in an add_stock,
\* consume_stock or receive_order call; every other call, and the caller
\* going on, leaves the currentStock of every existing item as it was.
C8_StockFrame ==
    [][\A i \in DOMAIN items :
          /\ i \in DOMAIN items'
          /\ items'[i].currentStock # Stock(i) =>
                op' \in {"add_stock", "consume_stock", "receive_order"}]_vars

\* a SUBMITTED order with a line of one unit for a stored item was canceled
C8_Witness ==
    /\ op = "cancel_order" /\ err = "" /\ was = SUBMITTED
    /\ \E i \in DOMAIN items \cap DOMAIN orders[args[1]].items :
          orders[args[1]].items[i] > 0

\* C9: create_order_for_item(itemID, qty) on an existing item creates exactly
\* one new order: OPEN, for the item's supplier, with the single line
\* itemID: max(0, qty), or itemID: reorderQty when qty is omitted; the orders
\* that existed are unchanged.
C9_OrderForItem ==
    [][(op' = "create_order_for_item" /\ args'[1] \in DOMAIN items) =>
          LET i == args'[1]
              oq == args'[2]
          IN /\ err' = ""
             /\ ret'[1] \notin DOMAIN orders
             /\ DOMAIN orders' = DOMAIN orders \cup {ret'[1]}
             /\ orders'[ret'[1]].status = OPEN
             /\ orders'[ret'[1]].supplierID = items[i].supplierID
             /\ DOMAIN orders'[ret'[1]].items = {i}
             /\ orders'[ret'[1]].items[i] =
                   (IF oq = <<>> THEN items[i].reorderQty ELSE Max(0, oq[1]))
             /\ \A o \in DOMAIN orders : orders'[o] = orders[o]]_vars

\* a second order was created with qty omitted, beside a first order that has
\* been submitted: its line is the reorderQty of the item
C9_Witness ==
    /\ op = "create_order_for_item" /\ err = "" /\ args[2] = <<>>
    /\ DOMAIN orders = {FirstPoId, ret[1]} /\ ret[1] # FirstPoId
    /\ orders[FirstPoId].status = SUBMITTED
    /\ orders[ret[1]].items[args[1]] = items[args[1]].reorderQty

\* C10: PurchaseOrder.add_item(itemID, qty) leaves the order's quantity for
\* itemID at its previous quantity (0 without a line) plus max(0, qty) and
\* the other lines as they were; every line of every order is >= 0.
C10_LinesCumulative ==
    /\ [][op' = "PurchaseOrder.add_item" =>
             LET o == args'[1]
                 i == args'[2]
                 lines == orders[o].items
                 old == IF i \in DOMAIN lines THEN lines[i] ELSE 0
             IN /\ DOMAIN orders'[o].items = DOMAIN lines \cup {i}
                /\ orders'[o].items[i] = old + Max(0, args'[3])
                /\ \A k \in DOMAIN lines \ {i} : orders'[o].items[k] = lines[k]]_vars
    /\ [](\A o \in DOMAIN orders : \A k \in DOMAIN orders[o].items :
             orders[o].items[k] >= 0)

\* a negative quantity was added to a line: the line still holds its unit
C10_Witness ==
    /\ op = "PurchaseOrder.add_item" /\ args[3] = -1
    /\ orders[args[1]].items[args[2]] = 1

\* C11: for an existing item and any integer qty, add_stock(item_id, qty)
\* followed immediately by consume_stock(item_id, qty): the consume_stock
\* returns True and currentStock is what it was before the add_stock.
C11_RoundTrip ==
    (op = "consume_stock" /\ prev # <<>>) =>
        /\ err = ""
        /\ ret = <<TRUE>>
        /\ items[prev[1]].currentStock = prev[3]

\* the round trip made with the largest quantity on an item without stock
C11_Witness ==
    /\ op = "consume_stock" /\ prev # <<>>
    /\ prev[2] = MaxQty /\ prev[3] = 0

\* the methods that are given an item id, and those given an order id
ItemOps == {"add_stock", "consume_stock", "create_order_for_item"}
OrderOps == {"submit_order", "receive_order", "cancel_order"}

\* C12 as stated: a failure of add_item or create_purchase_order (an unknown
\* category or supplier) is of the kind ReferenceError, a failure of the
\* methods given an item or order id is of the other kind, NotFoundError.
C12_KindsDiscriminate ==
    (err # "") =>
        /\ (op \in {"add_item", "create_purchase_order"} => exc = "ReferenceError")
        /\ (op \in ItemOps \cup OrderOps => exc = "NotFoundError")

\* C12, amended: every failure is of the one kind ValueError and only its
\* message tells what was unknown; a call fails exactly when an id it is
\* given is unknown, and add_item reports the category before the supplier.
C12_OneKindByMessage ==
    /\ (err # "") => exc = "ValueError"
    /\ (op = "add_item") =>
          err = (IF args[2] \notin DOMAIN categories THEN "Category does not exist"
                 ELSE IF args[3] \notin DOMAIN suppliers THEN "Supplier does not exist"
                 ELSE "")
    /\ (op = "create_purchase_order") =>
          err = (IF args[1] \notin DOMAIN suppliers THEN "Supplier not found" ELSE "")
    /\ (op \in {"add_stock", "consume_stock"}) =>
          err = (IF args[1] \notin DOMAIN items THEN "Item not found" ELSE "")
    /\ (op = "create_order_for_item" /\ err = "") => args[1] \in DOMAIN items
    /\ (op = "create_order_for_item" /\ err # "") =>
          /\ err = "Item not found"
          /\ args[1] \notin DOMAIN items
    /\ (op \in OrderOps) =>
          err = (IF args[1] \notin DOMAIN orders THEN "Order not found" ELSE "")

\* add_item has failed on a call in which the category and the supplier are
\* both unknown
C12_Witness ==
    /\ op = "add_item" /\ exc = "ValueError"
    /\ args[2] \notin DOMAIN categories /\ args[3] \notin DOMAIN suppliers
    /\ DOMAIN categories # {} /\ DOMAIN suppliers # {}
\* the lines of order o that reference no item of the catalog
Unknown(o) == DOMAIN orders[o].items \ DOMAIN items

\* C16 as stated: in every reachable state every line of every order
\* references an item present in items (so that receive_order never skips).
C16_LinesReferenceItems == \A o \in DOMAIN orders : Unknown(o) = {}

\* C16, amended: a line that references no item of the catalog comes only
\* from PurchaseOrder.add_item given an itemID that is not in items (no item
\* is ever deleted and create_order_for_item adds a line for a stored item);
\* receive_order on an order with such a line does not fail: it creates no
\* item, leaves the line as it is and sets the status to RECEIVED.
C16_SkippedLinesOnlyByAddItem ==
    [][/\ DOMAIN items \subseteq DOMAIN items'
       /\ \A o \in DOMAIN orders' : \A i \in DOMAIN orders'[o].items :
             (/\ i \notin DOMAIN items'
              /\ ~(o \in DOMAIN orders /\ i \in Unknown(o))) =>
                 (op' = "PurchaseOrder.add_item" /\ args'[1] = o /\ args'[2] = i)
       /\ (op' = "receive_order" /\ args'[1] \in DOMAIN orders) =>
             /\ err' = ""
             /\ DOMAIN items' = DOMAIN items
             /\ orders'[args'[1]].items = orders[args'[1]].items
             /\ orders'[args'[1]].status = RECEIVED]_vars

\* receive_order has returned on an order that has a line of one unit for
\* an item that is not in the catalog, and a line for one that is
C16_Witness ==
    /\ op = "receive_order" /\ err = ""
    /\ \E i \in Unknown(args[1]) : orders[args[1]].items[i] > 0
    /\ \E i \in DOMAIN items : i \in DOMAIN orders[args[1]].items
\* C17: in every reachable state every item's categoryID is a key of
\* categories and its supplierID a key of suppliers, every order's
\* supplierID is a key of suppliers, and create_order_for_item has not
\* failed on the supplier of an item.
C17_ReferentialIntegrity ==
    /\ \A i \in DOMAIN items :
          /\ items[i].categoryID \in DOMAIN categories
          /\ items[i].supplierID \in DOMAIN suppliers
    /\ \A o \in DOMAIN orders : orders[o].supplierID \in DOMAIN suppliers
    /\ (op = "create_order_for_item") => err # "Supplier not found"

\* create_order_for_item has made an order for an item of the second of
\* two suppliers
C17_Witness ==
    /\ op = "create_order_for_item" /\ err = ""
    /\ Cardinality(DOMAIN suppliers) = MaxSuppliers
    /\ items[args[1]].supplierID = FirstSupId + 1
    /\ orders[ret[1]].supplierID = FirstSupId + 1
\* C18: in every reachable state every item has reorderLevel >= 0 and
\* reorderQty >= 1, add_item having stored its reorder_level raised to 0 and
\* its reorder_qty raised to 1 where they were lower; and an order made by
\* create_order_for_item with qty omitted has a line quantity >= 1.
C18_ReorderSanitised ==
    /\ \A i \in DOMAIN items :
          items[i].reorderLevel >= 0 /\ items[i].reorderQty >= 1
    /\ (op = "add_item" /\ err = "") =>
          LET inp == args[1]
              it == items[ret[1]]
          IN /\ it.reorderLevel = (IF inp.reorder_level < 0 THEN 0 ELSE inp.reorder_level)
             /\ it.reorderQty = (IF inp.reorder_qty < 1 THEN 1 ELSE inp.reorder_qty)
    /\ (op = "create_order_for_item" /\ err = "" /\ args[2] = <<>>) =>
          orders[ret[1]].items[args[1]] >= 1

\* an order was made with qty omitted for an item that was added with a
\* negative reorder level and a reorder quantity of 0
C18_Witness ==
    /\ op = "create_order_for_item" /\ err = "" /\ args[2] = <<>>
    /\ items[args[1]].name = Cups
    /\ items[args[1]].reorderLevel = 0
    /\ orders[ret[1]].items[args[1]] = 1
\* C13: in the menu loop a failure raised by a call into InventorySystem, or
\* by a prompt or the conversion of its answer, is caught: its message is
\* printed and the loop is at the menu prompt again, the domain state being
\* as the failed call left it; and the loop is only left on the choice "0" or
\* when input() itself raised EOFError or KeyboardInterrupt.
C13_FailureCaught ==
    [][/\ (pc = "called" /\ exc \in Exception) =>
             /\ pc' = "menu"
             /\ shown' = err
             /\ state' = state /\ counters' = counters
       /\ (pc' \in {"done", "raised"} /\ pc' # pc) =>
             \/ pc = "menu" /\ choice' = "0"
             \/ op' = "input" /\ exc' \in {"EOFError", "KeyboardInterrupt"}]_vars

\* choice 9 was given an unknown order: "Order not found" was printed, and
\* the loop is at the menu prompt after that one call
C13_Witness ==
    /\ pc = "menu" /\ choice = "9" /\ calls = 1
    /\ shown = "Order not found"
    /\ DOMAIN orders # {}

\* C14: main() is never left by an exception that nothing caught: the
\* choice "0", and EOFError or KeyboardInterrupt at the menu prompt or at
\* a prompt inside a branch, end the loop cleanly.
C14_LoopLeftCleanly == pc # "raised"

\* C15 as stated: a choice from 1 to 9 that was handled without a failure
\* has made exactly one call into InventorySystem.
C15_OneCallPerChoice ==
    (pc = "menu" /\ choice \in Handled /\ shown = "") => calls = 1

\* C15, amended: a choice handled without a failure has made one call for
\* the choices 1, 2, 3, 4, 5, 8 and 9; two for choice 7, create_order_for_item
\* and then submit_order; and for choice 6 low_stock_items and, when the
\* answer was "y", one create_order_for_item and one submit_order for each
\* low item.  A choice that ended in a failure has made at most one call.
C15_CallsPerChoice ==
    /\ [](  (pc = "menu" /\ choice \in Handled) =>
              IF shown # "" THEN calls <= 1
              ELSE IF choice = "7" THEN calls = 2
              ELSE IF choice = "6"
              THEN /\ calls = 1 + 2 * Len(created)
                   /\ created # <<>> => Len(created) = Len(low)
              ELSE calls = 1)
    /\ [][(pc' = "called" /\ op' # "input") =>
             /\ calls' = calls + 1
             /\ choice = "7" =>
                   op' = (IF calls = 0 THEN "create_order_for_item" ELSE "submit_order")
             /\ choice = "6" =>
                   op' = (IF calls = 0 THEN "low_stock_items"
                          ELSE IF calls <= Len(low) THEN "create_order_for_item"
                          ELSE "submit_order")]_vars

\* choice 6 was answered "y" with two low items: five calls were made
C15_Witness ==
    /\ pc = "menu" /\ choice = "6" /\ shown = ""
    /\ Len(low) = 2 /\ Len(created) = 2 /\ calls = 5

\* C19: under main(), whenever the loop is at the menu prompt every stored
\* order is SUBMITTED or RECEIVED, never OPEN and never CANCELED.
C19_OrdersSubmittedAtMenu ==
    (pc = "menu") =>
        \A o \in DOMAIN orders : orders[o].status \in {SUBMITTED, RECEIVED}

\* at the menu prompt with two orders made through the menu, one of them
\* received by choice 9
C19_Witness ==
    /\ pc = "menu"
    /\ Cardinality(DOMAIN orders) = MainMaxOrders
    /\ \E o \in DOMAIN orders : orders[o].status = RECEIVED
    /\ \E o \in DOMAIN orders : orders[o].status = SUBMITTED
====
